---- MODULE Spec2Model ----
(***************************************************************************)
(* A model of syntax.py: mixfix declarations with precedence-directed      *)
(* printing, the ambiguous grammar and its disambiguating parser, and the  *)
(* nominal binding core (Name, V, F).                                      *)
(*                                                                         *)
(* Text is a sequence of one-character strings.  A Name is <<x, n>> with   *)
(* x the tag (text) and n the disambiguator (NoneN for Python's None).     *)
(* A term is a tuple whose first element is its class:                     *)
(*   <<"V", name>>   <<"F", name, body>>   <<"Plus", p, q>>   <<"Top">>    *)
(***************************************************************************)
EXTENDS Integers, Sequences, FiniteSets, TLC

VARIABLES pc, tm, s, outcome, before, drv, sep, edits, mode, left_prec,
          right_prec, global_nats, tm_u, tm_w, result, opened, issued, origin,
          prods, constructors, parser, transformer, adding, parsing

vars == <<pc, tm, s, outcome, before, drv, sep, edits, mode, left_prec,
          right_prec, global_nats, tm_u, tm_w, result, opened, issued, origin,
          prods, constructors, parser, transformer, adding, parsing>>

\* the state of make_parser's closure and of the calls in progress on it
parserVars == <<prods, constructors, parser, transformer, adding, parsing>>

\* the disambiguators handed out so far and where the term at hand came from
nameVars == <<issued, origin>>

(***************************************************************************)
(* Bounds of the model.                                                    *)
(***************************************************************************)
MaxLeaves == 4
StrLeaves == 3
TermLeaves == 3
TypedLeaves == 3
MaxEdits == 2
MaxNats == 3
\* the number of declarations made after the production of F
MaxDecls == 3

(***************************************************************************)
(* Generic helpers on sequences.                                           *)
(***************************************************************************)
Range(q) == {q[i] : i \in DOMAIN q}

RECURSIVE Concat(_)
Concat(qs) == IF qs = <<>> THEN <<>> ELSE Head(qs) \o Concat(Tail(qs))

NoneN == -1
None == "None"

EmptyMap == [n \in {} |-> n]

\* the dict union  m | {k: v}
Update(m, k, v) == [n \in DOMAIN m \cup {k} |-> IF n = k THEN v ELSE m[n]]

\* parens(s), line 3
parens(t) == <<"(">> \o t \o <<")">>

(***************************************************************************)
(* The poset of cursor positions.  A cursor position is <<class>> for the  *)
(* left-most position of a class and <<class, field>> for the position     *)
(* after a field ('Times' and 'Times.q' in the source).                    *)
(***************************************************************************)
RECURSIVE Closure(_)
Closure(rel) ==
  LET step == rel \cup {<<p[1], q[2]>> : <<p, q>> \in {pq \in rel \X rel : pq[1][2] = pq[2][1]}}
  IN IF step = rel THEN rel ELSE Closure(step)

EmptyPoset == [bots |-> {}, tops |-> {}, rel |-> {}]
add_bot(po, x) == [po EXCEPT !.bots = @ \cup {x}]
add_top(po, x) == [po EXCEPT !.tops = @ \cup {x}]
add(po, lo, hi) == [po EXCEPT !.rel = Closure(@ \cup {<<lo, hi>>})]
le(po, a, b) == a = b \/ a \in po.bots \/ b \in po.tops \/ <<a, b>> \in po.rel

bot == <<"bot">>
top == <<"top">>

\* prec_ge(p, q): q <= p
prec_ge(po, p, q) == add(po, q, p)

RECURSIVE prec_ges(_, _)
prec_ges(po, pqs) ==
  IF pqs = <<>> THEN po
  ELSE prec_ges(prec_ge(po, Head(pqs)[1], Head(pqs)[2]), Tail(pqs))

prec_top(po, p) == add_top(po, p)

\* The precedences declared by the examples, in the order of the script.
Example1Order ==
  prec_ges(prec_top(prec_top(add_top(add_bot(EmptyPoset, bot), top), <<"Top">>), <<"Top", "s">>),
    << <<<<"Times">>, <<"Times", "times">>>>,
       <<<<"Plus">>, <<"Plus", "plus">>>>,
       <<<<"Times">>, <<"Plus">>>>,
       <<<<"Times", "q">>, <<"Plus", "p">>>>,
       <<<<"Times", "q">>, <<"Plus", "q">>>>,
       <<<<"Pow">>, <<"Pow", "to">>>>,
       <<<<"Plus">>, <<"Pow">>>>,
       <<<<"Plus", "q">>, <<"Pow", "p">>>> >>)

global_prec_order ==
  prec_ges(Example1Order,
    << <<<<"App", "n">>, <<"App", "m">>>>,
       <<<<"App", "n">>, <<"Lam", "m">>>> >>)

(***************************************************************************)
(* Mixfix declarations: the annotations of each declared class, in         *)
(* declaration order.  lit marks a Str field; s is its parsing spelling    *)
(* and kvs its spellings by mode.                                          *)
(***************************************************************************)
Field(k) == [k |-> k, lit |-> FALSE, s |-> <<>>, kvs |-> <<>>]
Str(k, sp, pretty) == [k |-> k, lit |-> TRUE, s |-> sp, kvs |-> [pretty |-> pretty]]
Str0(k, sp) == [k |-> k, lit |-> TRUE, s |-> sp, kvs |-> <<>>]

Annotations ==
  [Top   |-> <<Str0("s", <<"1">>)>>,
   Times |-> <<Field("p"), Str("times", <<"*">>, <<" ", "*", " ">>), Field("q")>>,
   Plus  |-> <<Field("p"), Str("plus", <<"+">>, <<" ", "+", " ">>), Field("q")>>,
   Pow   |-> <<Field("p"), Str("to", <<"-", ">">>, <<" ", "-", ">", " ">>), Field("q")>>,
   Lam   |-> <<Str("lam", <<"\\">>, <<"lambda">>), Field("m")>>,
   App   |-> <<Field("m"), Str("app", <<>>, <<" ">>), Field("n")>>,
   Add   |-> <<Field("p"), Str0("plus", <<" ", "+", " ">>), Field("q")>>]

Classes == DOMAIN Annotations

\* Str.in_mode
in_mode(v, md) == IF md = None \/ md \notin DOMAIN v.kvs THEN v.s ELSE v.kvs[md]

\* fields = tuple(k for k, v in annotations.items() if type(v) is not Str)
RECURSIVE NonStr(_)
NonStr(anns) ==
  IF anns = <<>> THEN <<>>
  ELSE (IF Head(anns).lit THEN <<>> ELSE <<Head(anns).k>>) \o NonStr(Tail(anns))

fields(name) == NonStr(Annotations[name])

\* getattr(self, k): the value of field k of a mixfix node
IndexOf(q, x) == CHOOSE i \in DOMAIN q : q[i] = x
getattr(self, k) == self[1 + IndexOf(fields(self[1]), k)]

(***************************************************************************)
(* Names and the binding forms' constructors.                              *)
(***************************************************************************)
Name(x, n) == <<x, n>>
V(x) == <<"V", x>>
F(x, e) == <<"F", x, e>>
IsV(t) == t[1] = "V"
IsF(t) == t[1] = "F"
IsMixfix(t) == t[1] \in Classes

Digit == <<"0", "1", "2", "3", "4", "5", "6", "7", "8", "9">>

RECURSIVE Decimal(_)
Decimal(n) == IF n < 10 THEN <<Digit[n + 1]>> ELSE Decimal(n \div 10) \o <<Digit[(n % 10) + 1]>>

\* Name.__str__
NameStr(x) == IF x[2] = NoneN THEN x[1] ELSE x[1] \o <<"@">> \o Decimal(x[2])

(***************************************************************************)
(* The pretty-printer.                                                     *)
(***************************************************************************)
make_prec(name, field_name) == IF field_name # name THEN <<name, field_name>> ELSE <<name>>

\* bracket = lambda mode, s: f'[{s}]', the bracketer class Add declares
square(md, t) == <<"[">> \o t \o <<"]">>

\* c.bracket: the bracketer the class declares, and parens in every mode for
\* a class that declares none
bracket(name, md, t) == IF name = "Add" THEN square(md, t) ELSE parens(t)

\* a printer that compares only the left cursor positions
bracketing_left_only(name, lp, rp, prec_order) == ~le(prec_order, lp, <<name>>)

bracketing(name, lp, rp, prec_order) ==
  LET annotations == Annotations[name]
      left_prec_inner == <<name>>
      right_prec_inner == make_prec(name, annotations[Len(annotations)].k)
  IN ~(le(prec_order, lp, left_prec_inner) /\ le(prec_order, rp, right_prec_inner))

\* precs with every position of a bracketed node reset
precs_all_bot(name, lp, rp, prec_order) ==
  LET annotations == Annotations[name]
      b == bracketing(name, lp, rp, prec_order)
  IN <<IF b THEN bot ELSE <<name>> >> \o
     [i \in 1..Len(annotations) |->
        IF b THEN bot ELSE make_prec(name, annotations[i].k)]

\* precs without the reset of the last position of a bracketed node
precs_last_kept(name, lp, rp, prec_order) ==
  LET annotations == Annotations[name]
      b == bracketing(name, lp, rp, prec_order)
  IN <<IF b THEN bot ELSE <<name>> >> \o
     [i \in 1..Len(annotations) |-> make_prec(name, annotations[i].k)]

\* The cursor positions used to recur: precs[1] is left of the first entry of
\* the declaration, precs[i + 1] is right of entry i.
precs(name, lp, rp, prec_order) ==
  LET annotations == Annotations[name]
      b == bracketing(name, lp, rp, prec_order)
      all == <<IF b THEN bot ELSE <<name>> >> \o
             [i \in 1..Len(annotations) |-> make_prec(name, annotations[i].k)]
  IN IF b THEN [all EXCEPT ![Len(all)] = bot] ELSE all

RECURSIVE str(_, _, _, _, _)
to_str(self, md, lp, rp, prec_order) ==
  LET name == self[1]
      annotations == Annotations[name]
      ps == precs(name, lp, rp, prec_order)
      res == Concat([i \in 1..Len(annotations) |->
               IF annotations[i].lit THEN in_mode(annotations[i], md)
               ELSE str(getattr(self, annotations[i].k), md, ps[i], ps[i + 1], prec_order)])
  IN IF bracketing(name, lp, rp, prec_order) THEN bracket(name, md, res) ELSE res

\* V.str
V_str(self, md, lp, rp, prec_order) == NameStr(self[2])

\* F.str
F_str(self, md, lp, rp, prec_order) ==
  LET dot == IF md = None THEN <<".">> ELSE <<".", " ">>
  IN NameStr(self[2]) \o dot \o str(self[3], md, bot, rp, prec_order)

str(self, md, lp, rp, prec_order) ==
  CASE IsV(self) -> V_str(self, md, lp, rp, prec_order)
    [] IsF(self) -> F_str(self, md, lp, rp, prec_order)
    [] OTHER -> to_str(self, md, lp, rp, prec_order)

\* __str__: str(None) with the default bounds
Str__(self) == str(self, None, bot, bot, global_prec_order)

(***************************************************************************)
(* The terms the specifications start from.                                *)
(***************************************************************************)
Top == <<"Top">>
Binary == {"Times", "Plus", "Pow"}

\* the terms of Example 1 with exactly n occurrences of Top
RECURSIVE Ex1Terms(_)
Ex1Terms(n) ==
  IF n = 1 THEN {Top}
  ELSE UNION {{<<c, a, b>> : c \in Binary, a \in Ex1Terms(k), b \in Ex1Terms(n - k)} :
              k \in 1..(n - 1)}

Ex1UpTo(n) == UNION {Ex1Terms(k) : k \in 1..n}

x_ == Name(<<"x">>, NoneN)
y_ == Name(<<"y">>, NoneN)
x0 == Name(<<"x">>, 0)

\* terms with variables and binders, as the examples build them
Ex1BinderTerms ==
  {V(x_), V(x0), F(x_, V(x_)), F(x0, V(x0)), F(x_, V(y_)),
   <<"Plus", V(x_), Top>>, <<"Times", V(x_), V(y_)>>,
   F(x_, <<"Plus", V(x_), Top>>), <<"Pow", F(x_, V(x_)), Top>>}

\* terms of the lambda calculus of Example 4
LamTerms ==
  {<<"Lam", F(x_, V(x_))>>, <<"Lam", F(x_, <<"App", V(x_), V(x_)>>)>>,
   <<"App", <<"Lam", F(x_, V(x_))>>, <<"Lam", F(y_, V(y_))>>>>,
   <<"App", <<"App", V(x_), V(y_)>>, V(x_)>>, <<"App", V(x_), <<"App", V(y_), V(x_)>>>>}

BinderTerms == Ex1BinderTerms \cup LamTerms

NoOutcome == [kind |-> "none", v |-> <<>>, parses |-> {}, checks |-> {}]

\* every cursor position: bot, top, and the positions of every declared class
Positions ==
  {bot, top} \cup {<<c>> : c \in Classes}
  \cup UNION {{<<c, Annotations[c][i].k>> : i \in 1..Len(Annotations[c])} : c \in Classes}

Modes == {None, "pretty"}

(***************************************************************************)
(* The grammar: one production per declared class on the single            *)
(* nonterminal term.  An item is a term placeholder or a literal.          *)
(***************************************************************************)
TermItem == [t |-> TRUE, s |-> <<>>]
LitItem(sp) == [t |-> FALSE, s |-> sp]

\* the production mixfix registers for class c
ProductionOf(c) ==
  <<c, [i \in 1..Len(Annotations[c]) |->
          IF Annotations[c][i].lit THEN LitItem(Annotations[c][i].s) ELSE TermItem]>>

\* global_parser.add_production((F, [None, ".", None]))
FProduction == <<"F", <<TermItem, LitItem(<<".">>), TermItem>>>>

\* the productions registered when Example 1 has been declared
productions ==
  <<FProduction, ProductionOf("Top"), ProductionOf("Times"), ProductionOf("Plus"),
    ProductionOf("Pow")>>

\* make_grammar leaves an empty literal out of the production
GrammarItems(p) == SelectSeq(p[2], LAMBDA it : it.t \/ it.s # <<>>)

\* the literal terminals of the grammar
Literals ==
  {<<"(">>, <<")">>} \cup
  UNION {{it.s : it \in {x \in Range(GrammarItems(productions[i])) : ~x.t}} :
         i \in DOMAIN productions}

Letters == {"x", "y", "_"}
Digits == Range(Digit)
WS == {" "}

(***************************************************************************)
(* The state of the module once the script has run its declarations: the   *)
(* closure of make_parser holds the list productions, the dict             *)
(* constructors, and the parser and the transformer built from them.  A    *)
(* parser is modelled by the list of productions its grammar was made      *)
(* from, a transformer by the dict of constructors it was made from.       *)
(***************************************************************************)
\* constructors once add_production has run on each production of ps in turn
RECURSIVE ConstructorsOf(_)
ConstructorsOf(ps) ==
  IF ps = <<>> THEN EmptyMap
  ELSE Update(ConstructorsOf(SubSeq(ps, 1, Len(ps) - 1)), ps[Len(ps)][1], ps[Len(ps)])

\* no call of add_production, no call of parses in progress
NoCall == [line |-> 0, p |-> <<>>, parser |-> <<>>, transformer |-> EmptyMap]

\* the closure after add_production has run on each production of ps
ParserReady(ps) ==
  /\ prods = ps
  /\ constructors = ConstructorsOf(ps)
  /\ parser = ps
  /\ transformer = ConstructorsOf(ps)
  /\ adding = NoCall
  /\ parsing = NoCall

\* global_nats = nats(): nothing handed out yet
NoneIssued ==
  /\ issued = <<>>
  /\ origin = "given"

(***************************************************************************)
(* SpecStr: a term is rendered in some mode between some pair of incoming  *)
(* cursor positions.                                                       *)
(***************************************************************************)
StrTerms == Ex1UpTo(StrLeaves) \cup BinderTerms

InitStr ==
  /\ pc = "term"
  /\ tm \in StrTerms
  /\ s = <<>>
  /\ outcome = NoOutcome
  /\ before = NoOutcome
  /\ drv = <<>>
  /\ sep = <<>>
  /\ edits = 0
  /\ tm_u = <<>>
  /\ tm_w = <<>>
  /\ result = <<>>
  /\ opened = {}
  /\ mode = None
  /\ left_prec = bot
  /\ right_prec = bot
  /\ global_nats = 0
  /\ NoneIssued
  /\ ParserReady(productions)

ToStr(md, lp, rp) ==
  /\ pc = "term"
  /\ pc' = "str"
  /\ mode' = md
  /\ left_prec' = lp
  /\ right_prec' = rp
  /\ s' = str(tm, md, lp, rp, global_prec_order)
  /\ UNCHANGED <<tm, outcome, before, drv, sep, edits, global_nats, tm_u, tm_w, result,
                 opened>>
  /\ UNCHANGED <<nameVars, parserVars>>

NextStr == \E md \in Modes, lp \in Positions, rp \in Positions : ToStr(md, lp, rp)

SpecStr == InitStr /\ [][NextStr]_vars

(***************************************************************************)
(* Reading a rendering: whether a text is one bracket pair around the rest.*)
(***************************************************************************)
\* the position of the ")" closing the "(" that opened before position i at depth d
RECURSIVE CloseOf(_, _, _)
CloseOf(t, i, d) ==
  IF i > Len(t) THEN 0
  ELSE IF t[i] = "(" THEN CloseOf(t, i + 1, d + 1)
  ELSE IF t[i] = ")" THEN (IF d = 1 THEN i ELSE CloseOf(t, i + 1, d - 1))
  ELSE CloseOf(t, i + 1, d)

Wrapped(t) == Len(t) >= 2 /\ t[1] = "(" /\ CloseOf(t, 2, 1) = Len(t)

ExitOfLast(c) == <<c, Annotations[c][Len(Annotations[c])].k>>

\* C6: a node of a declared kind is rendered inside a bracket pair exactly when
\* it is not the case that the incoming left position is below the kind's entry
\* position and the incoming right position is below the exit position of the
\* kind's last field.
C6_BracketIffNotBelow ==
  (pc = "str" /\ IsMixfix(tm)) =>
    (Wrapped(s) <=>
       ~(le(global_prec_order, left_prec, <<tm[1]>>)
         /\ le(global_prec_order, right_prec, ExitOfLast(tm[1]))))

\* a node bracketed although its left inequality holds: only the right one fails
C6_Witness ==
  /\ pc = "str"
  /\ IsMixfix(tm)
  /\ Wrapped(s)
  /\ le(global_prec_order, left_prec, <<tm[1]>>)
  /\ ~le(global_prec_order, right_prec, ExitOfLast(tm[1]))

(***************************************************************************)
(* Lexing.  Terminals are matched at a position of the text after skipping *)
(* white space; CNAME takes the longest match.  A token holds its terminal *)
(* kind, its text and the positions of its first and last character.       *)
(***************************************************************************)
RECURSIVE IdEnd(_, _)
IdEnd(text, i) ==
  IF i + 1 <= Len(text) /\ text[i + 1] \in Letters \cup Digits THEN IdEnd(text, i + 1) ELSE i

HasAt(text, i, lit) ==
  /\ i + Len(lit) - 1 <= Len(text)
  /\ SubSeq(text, i, i + Len(lit) - 1) = lit

LexError == <<[type |-> "ERROR", v |-> <<>>, from |-> 0, to |-> 0]>>

RECURSIVE Lex(_, _)
Lex(text, i) ==
  IF i > Len(text) THEN <<>>
  ELSE IF text[i] \in WS THEN Lex(text, i + 1)
  ELSE IF \E lit \in Literals : HasAt(text, i, lit)
    THEN LET lit == CHOOSE l \in Literals : HasAt(text, i, l)
             rest == Lex(text, i + Len(lit))
         IN IF rest = LexError THEN LexError
            ELSE <<[type |-> "LIT", v |-> lit, from |-> i, to |-> i + Len(lit) - 1]>> \o rest
  ELSE IF text[i] \in Letters
    THEN LET e == IdEnd(text, i)
             rest == Lex(text, e + 1)
         IN IF rest = LexError THEN LexError
            ELSE <<[type |-> "CNAME", v |-> SubSeq(text, i, e), from |-> i, to |-> e]>> \o rest
  ELSE LexError

(***************************************************************************)
(* The derivation engine: every derivation of the tokens i..j-1 from term. *)
(* A derivation is <<"identifier", text>>, <<"paren", d>> or               *)
(* <<class, d1, ..., dk>>.                                                 *)
(***************************************************************************)
IsLit(tok, sp) == tok.type = "LIT" /\ tok.v = sp

RECURSIVE Derivs(_, _, _)
RECURSIVE MatchItems(_, _, _, _, _)
Derivs(toks, i, j) ==
  (IF j = i + 1 /\ toks[i].type = "CNAME" THEN {<<"identifier", toks[i].v>>} ELSE {})
  \cup (IF j - i >= 3 /\ IsLit(toks[i], <<"(">>) /\ IsLit(toks[j - 1], <<")">>)
        THEN {<<"paren", d>> : d \in Derivs(toks, i + 1, j - 1)} ELSE {})
  \cup UNION {{<<productions[n][1]>> \o kids :
                 kids \in MatchItems(toks, GrammarItems(productions[n]), 1, i, j)} :
              n \in DOMAIN productions}

MatchItems(toks, items, k, i, j) ==
  IF k > Len(items) THEN (IF i = j THEN {<<>>} ELSE {})
  ELSE IF j - i < Len(items) - k + 1 THEN {}
  ELSE IF ~items[k].t
    THEN (IF IsLit(toks[i], items[k].s) THEN MatchItems(toks, items, k + 1, i + 1, j) ELSE {})
  ELSE UNION {LET rest == MatchItems(toks, items, k + 1, m, j)
              IN IF rest = {} THEN {}
                 ELSE {<<d>> \o r : d \in Derivs(toks, i, m), r \in rest} :
              m \in (i + 1)..(j - (Len(items) - k))}

\* parser.parse(s): the derivations of the whole text ({} when there is none)
Forest(text) ==
  LET toks == Lex(text, 1)
  IN IF toks = LexError \/ toks = <<>> THEN {} ELSE Derivs(toks, 1, Len(toks) + 1)

\* "(" term ")" is inlined by ?term: the tree holds no node for it
RECURSIVE Inline(_)
Inline(d) ==
  IF d[1] = "identifier" THEN d
  ELSE IF d[1] = "paren" THEN Inline(d[2])
  ELSE <<d[1]>> \o [i \in 1..(Len(d) - 1) |-> Inline(d[i + 1])]

(***************************************************************************)
(* The transformer: a tree to a term, or Raise.                            *)
(***************************************************************************)
Raise == <<"raise">>

\* F.transform
F_transform(args) ==
  IF Len(args) = 2 /\ IsV(args[1]) THEN F(args[1][2], args[2]) ELSE Raise

RECURSIVE Transform(_)
Transform(tree) ==
  IF tree[1] = "identifier" THEN V(Name(tree[2], NoneN))
  ELSE LET args == [i \in 1..(Len(tree) - 1) |-> Transform(tree[i + 1])]
       IN IF \E i \in DOMAIN args : args[i] = Raise THEN Raise
          ELSE IF tree[1] = "F" THEN F_transform(args)
          ELSE <<tree[1]>> \o args

(***************************************************************************)
(* The binding core: alpha-equivalence, freshening, substitution, free     *)
(* variables.  A renaming or substitution is a function on Names.          *)
(***************************************************************************)
\* Name.__eq__
Name_eq(a, b) == a[1] = b[1] /\ a[2] = b[2]

Bool(b) == IF b THEN "True" ELSE "False"

RECURSIVE eq(_, _, _)
RECURSIVE all_eq(_, _, _, _)

\* V.__eq__: other.x is the Name of a V and the bound Name of an F; a mixfix
\* node has no attribute x
V_eq(self, other, renaming) ==
  IF IsMixfix(other) THEN "AttributeError"
  ELSE IF self[2] \in DOMAIN renaming THEN Bool(Name_eq(renaming[self[2]], other[2]))
  ELSE Bool(Name_eq(self[2], other[2]))

\* F.__eq__
F_eq(self, other, renaming) ==
  IF ~IsF(other) THEN "False"
  ELSE eq(self[3], other[3], Update(renaming, self[2], other[2]))

\* all(getattr(self, k).__eq__(getattr(other, k), renaming) for k in fields)
all_eq(self, other, i, renaming) ==
  IF i > Len(self) THEN "True"
  ELSE LET r == eq(self[i], other[i], renaming)
       IN IF r = "True" THEN all_eq(self, other, i + 1, renaming) ELSE r

\* mixfix __eq__
mixfix_eq(self, other, renaming) ==
  IF self[1] # other[1] THEN "False" ELSE all_eq(self, other, 2, renaming)

eq(self, other, renaming) ==
  CASE IsV(self) -> V_eq(self, other, renaming)
    [] IsF(self) -> F_eq(self, other, renaming)
    [] OTHER -> mixfix_eq(self, other, renaming)

\* self == other
Equals(self, other) == eq(self, other, EmptyMap)

\* a Name.fresh that hands out the same disambiguator every time
Name_fresh_zero(x, n) == Name(x[1], 0)

\* Name.fresh with the counter at n
Name_fresh(x, n) == Name(x[1], n)

\* fresh and subst return the new term and the counter they leave
RECURSIVE fresh(_, _, _)
RECURSIVE fresh_fields(_, _, _, _)

\* the fields of a mixfix node from the i-th on, freshened left to right
fresh_fields(self, i, renaming, n) ==
  IF i > Len(self) THEN [t |-> <<>>, n |-> n]
  ELSE LET a == fresh(self[i], renaming, n)
           r == fresh_fields(self, i + 1, renaming, a.n)
       IN [t |-> <<a.t>> \o r.t, n |-> r.n]

F_fresh(self, renaming, n) ==
  LET x == Name_fresh(self[2], n)
      e == fresh(self[3], Update(renaming, self[2], x), n + 1)
  IN [t |-> F(x, e.t), n |-> e.n]

V_fresh(self, renaming, n) ==
  [t |-> IF self[2] \in DOMAIN renaming THEN V(renaming[self[2]]) ELSE self, n |-> n]

fresh(self, renaming, n) ==
  CASE IsV(self) -> V_fresh(self, renaming, n)
    [] IsF(self) -> F_fresh(self, renaming, n)
    [] OTHER -> LET r == fresh_fields(self, 2, renaming, n)
                IN [t |-> <<self[1]>> \o r.t, n |-> r.n]

RECURSIVE subst(_, _, _)
RECURSIVE subst_fields(_, _, _, _)

subst_fields(self, i, substitution, n) ==
  IF i > Len(self) THEN [t |-> <<>>, n |-> n]
  ELSE LET a == subst(self[i], substitution, n)
           r == subst_fields(self, i + 1, substitution, a.n)
       IN [t |-> <<a.t>> \o r.t, n |-> r.n]

\* an F.subst that gives its Name back to the counter
F_subst_reusing(self, substitution, n) ==
  LET x == Name_fresh(self[2], n)
      e == subst(self[3], Update(substitution, self[2], V(x)), n)
  IN [t |-> F(x, e.t), n |-> e.n]

F_subst(self, substitution, n) ==
  LET x == Name_fresh(self[2], n)
      e == subst(self[3], Update(substitution, self[2], V(x)), n + 1)
  IN [t |-> F(x, e.t), n |-> e.n]

V_subst(self, substitution, n) ==
  [t |-> IF self[2] \in DOMAIN substitution THEN substitution[self[2]] ELSE self, n |-> n]

subst(self, substitution, n) ==
  CASE IsV(self) -> V_subst(self, substitution, n)
    [] IsF(self) -> F_subst(self, substitution, n)
    [] OTHER -> LET r == subst_fields(self, 2, substitution, n)
                IN [t |-> <<self[1]>> \o r.t, n |-> r.n]

\* an fvs whose binder does not take its bound Name out
RECURSIVE fvs_bound_kept(_)
fvs_bound_kept(self) ==
  CASE IsV(self) -> {self[2]}
    [] IsF(self) -> fvs_bound_kept(self[3])
    [] OTHER -> UNION {fvs_bound_kept(self[i]) : i \in 2..Len(self)}

RECURSIVE fvs(_)
fvs(self) ==
  CASE IsV(self) -> {self[2]}
    [] IsF(self) -> fvs(self[3]) \ {self[2]}
    [] OTHER -> UNION {fvs(self[i]) : i \in 2..Len(self)}

\* Name.with_n
with_n(x, n) == Name(x[1], n)

\* the argument in_use is None or a set: NoSet stands for None, <<u>> for the
\* set u
NoSet == <<>>

\* if in_use is None: in_use = set(v for _, v in renaming.items())
in_use_of(renaming, in_use) ==
  IF in_use = NoSet THEN {renaming[k] : k \in DOMAIN renaming} ELSE in_use[1]

\* next(self.x.with_n(n) for n in nats() if self.x.with_n(n) not in in_use)
RECURSIVE first_not_in_use(_, _, _)
first_not_in_use(x, in_use, n) ==
  IF with_n(x, n) \notin in_use THEN with_n(x, n) ELSE first_not_in_use(x, in_use, n + 1)

\* simple_names returns the new term; in_use is the set the caller passed as
\* the call leaves it (in_use |= self.fvs() adds to that very set)
RECURSIVE simple_names(_, _, _)
RECURSIVE simple_fields(_, _, _, _)

\* the fields of a mixfix node from the i-th on, each given the same set
simple_fields(self, i, renaming, in_use) ==
  IF i > Len(self) THEN [t |-> <<>>, in_use |-> in_use]
  ELSE LET a == simple_names(self[i], renaming, <<in_use>>)
           r == simple_fields(self, i + 1, renaming, a.in_use)
       IN [t |-> <<a.t>> \o r.t, in_use |-> r.in_use]

F_simple_names(self, renaming, in_use) ==
  LET used == in_use_of(renaming, in_use) \cup fvs(self)
      x == IF with_n(self[2], NoneN) \notin used THEN with_n(self[2], NoneN)
           ELSE first_not_in_use(self[2], used, 0)
      e == simple_names(self[3], Update(renaming, self[2], x), <<used \cup {x}>>)
  IN [t |-> F(x, e.t), in_use |-> used]

V_simple_names(self, renaming, in_use) ==
  [t |-> IF self[2] \in DOMAIN renaming THEN V(renaming[self[2]]) ELSE self,
   in_use |-> in_use_of(renaming, in_use)]

simple_names(self, renaming, in_use) ==
  CASE IsV(self) -> V_simple_names(self, renaming, in_use)
    [] IsF(self) -> F_simple_names(self, renaming, in_use)
    [] OTHER -> LET r == simple_fields(self, 2, renaming, in_use_of(renaming, in_use))
                IN [t |-> <<self[1]>> \o r.t, in_use |-> r.in_use]

\* F.get_unwrap: [e.x, e.e] of e = self.fresh()
get_unwrap(self, n) ==
  LET e == F_fresh(self, EmptyMap, n)
  IN [x |-> e.t[2], e |-> e.t[3], n |-> e.n]

\* the disambiguators of the Names F.fresh and F.subst gave the binders of
\* the term they returned, in the order of the calls of Name.fresh: a binder
\* before its body, the fields of a node left to right
RECURSIVE Allocated(_)
Allocated(t) ==
  CASE IsV(t) -> <<>>
    [] IsF(t) -> <<t[2][2]>> \o Allocated(t[3])
    [] OTHER -> Concat([i \in 1..(Len(t) - 1) |-> Allocated(t[i + 1])])

(***************************************************************************)
(* The disambiguating parser.                                              *)
(***************************************************************************)
Parens == {"(", ")"}

remove_whitespace(text) == SelectSeq(text, LAMBDA c : c \notin WS)

\* the loop of reducible_to, with 1-based positions
RECURSIVE reducible_loop(_, _, _, _)
reducible_loop(a, b, i, j) ==
  IF j = Len(b) + 1 THEN "True"
  ELSE IF i > Len(a) THEN "IndexError"
  ELSE IF a[i] = b[j] THEN reducible_loop(a, b, i + 1, j + 1)
  ELSE IF a[i] \in Parens THEN reducible_loop(a, b, i + 1, j)
  ELSE "False"

reducible_to(a, b) ==
  LET set_s == Range(a)
      set_t == Range(b)
  IN IF a = b THEN "True"
     ELSE IF ((set_s \ set_t) \cup (set_t \ set_s)) \ Parens # {} THEN "False"
     ELSE IF (set_s \ set_t) \ Parens # {} THEN "False"
     ELSE reducible_loop(a, b, 1, 1)

\* the trees of a forest with the term each builds, those whose
\* construction raises left out
Built(forest) ==
  {c \in {[d |-> d, v |-> Transform(Inline(d))] : d \in forest} : c.v # Raise}

\* the filter's verdict on a candidate v: lhs, rhs and reducible_to(lhs, rhs)
Verdict(v, lhs, rhs) == [v |-> v, lhs |-> lhs, rhs |-> rhs, r |-> reducible_to(lhs, rhs)]

Check(text, v) == Verdict(v, remove_whitespace(text), remove_whitespace(Str__(v)))

\* the loop of parses over the candidates: the exception it raises or the
\* list it returns, with the verdict on each candidate
parses_loop(checks) ==
  IF \E c \in checks : c.r = "IndexError"
    THEN [exc |-> "IndexError", kept |-> {}, checks |-> checks]
  ELSE [exc |-> "none", kept |-> {c.v : c \in {k \in checks : k.r = "True"}},
        checks |-> checks]

\* parser.parse(s) raises when the text has no derivation
parses_of(text, forest) ==
  IF forest = {} THEN [exc |-> "UnexpectedInput", kept |-> {}, checks |-> {}]
  ELSE parses_loop({Check(text, c.v) : c \in Built(forest)})

\* Parser.parses
parses(text) == parses_of(text, Forest(text))

\* the match statement of Parser.parse on what parses gave
parse_match(r) ==
  IF r.exc # "none"
    THEN [kind |-> r.exc, v |-> <<>>, parses |-> {}, checks |-> r.checks]
  ELSE IF r.kept = {}
    THEN [kind |-> "NoParse", v |-> <<>>, parses |-> {}, checks |-> r.checks]
  ELSE IF Cardinality(r.kept) = 1
    THEN [kind |-> "return", v |-> CHOOSE v \in r.kept : TRUE, parses |-> r.kept,
          checks |-> r.checks]
  ELSE [kind |-> "AmbiguousParse", v |-> <<>>, parses |-> r.kept, checks |-> r.checks]

\* Parser.parse
parse(text) == parse_match(parses(text))

(***************************************************************************)
(* Spec: texts are typed or rendered from a term, edited, and parsed.      *)
(* A typed text is the yield of a derivation of the grammar; wrapping a    *)
(* sub-term of it puts one more pair of parentheses around that sub-term.  *)
(***************************************************************************)
NoTerm == <<>>
NoDrv == <<>>

\* the derivations with exactly n leaves and no parentheses
RECURSIVE TypedDerivs(_)
TypedDerivs(n) ==
  IF n = 1 THEN {<<"Top">>, <<"identifier", <<"x">>>>}
  ELSE UNION {{<<c, a, b>> : c \in Binary \cup {"F"},
                             a \in TypedDerivs(k), b \in TypedDerivs(n - k)} :
              k \in 1..(n - 1)}

\* the literals of the production of class c
ItemsOf(c) == IF c = "F" THEN FProduction[2] ELSE ProductionOf(c)[2]

\* the text of a derivation, operators set off by sp
RECURSIVE Yield(_, _)
Yield(d, sp) ==
  IF d[1] = "identifier" THEN d[2]
  ELSE IF d[1] = "paren" THEN parens(Yield(d[2], sp))
  ELSE IF Len(d) = 1 THEN Concat([i \in 1..Len(ItemsOf(d[1])) |-> ItemsOf(d[1])[i].s])
  ELSE LET items == ItemsOf(d[1])
           termsBefore(i) == Cardinality({j \in 1..i : items[j].t})
       IN Concat([i \in 1..Len(items) |->
                    IF items[i].t THEN Yield(d[1 + termsBefore(i)], sp)
                    ELSE sp \o items[i].s \o sp])

\* the sub-terms of a derivation, each by the path of child indices to it
RECURSIVE Paths(_)
Paths(d) ==
  {<<>>} \cup
  (IF d[1] = "identifier" THEN {}
   ELSE UNION {{<<i>> \o p : p \in Paths(d[i])} : i \in 2..Len(d)})

\* one more pair of parentheses around the sub-term at path p
RECURSIVE WrapAt(_, _)
WrapAt(d, p) ==
  IF p = <<>> THEN <<"paren", d>>
  ELSE [d EXCEPT ![p[1]] = WrapAt(d[p[1]], Tail(p))]

ParseTerms == Ex1UpTo(TermLeaves) \cup Ex1BinderTerms

Init ==
  /\ \/ /\ pc = "term"
        /\ tm \in ParseTerms
        /\ s = <<>>
        /\ drv = NoDrv
        /\ sep = <<>>
     \/ /\ pc = "text"
        /\ tm = NoTerm
        /\ drv \in UNION {TypedDerivs(n) : n \in 1..TypedLeaves}
        /\ sep \in {<<>>, <<" ">>}
        /\ s = Yield(drv, sep)
  /\ outcome = NoOutcome
  /\ before = NoOutcome
  /\ edits = 0
  /\ mode = None
  /\ left_prec = bot
  /\ right_prec = bot
  /\ global_nats = 0
  /\ tm_u = <<>>
  /\ tm_w = <<>>
  /\ result = <<>>
  /\ opened = {}
  /\ NoneIssued
  /\ ParserReady(productions)

\* str(t)
Str_ ==
  /\ pc = "term"
  /\ pc' = "text"
  /\ s' = Str__(tm)
  /\ UNCHANGED <<tm, outcome, before, drv, sep, edits, mode, left_prec, right_prec,
                 global_nats, tm_u, tm_w, result, opened>>
  /\ UNCHANGED <<nameVars, parserVars>>

\* the last character of the text is struck out
Erase ==
  /\ pc = "text"
  /\ edits < MaxEdits
  /\ s # <<>>
  /\ s' = SubSeq(s, 1, Len(s) - 1)
  /\ drv' = NoDrv
  /\ edits' = edits + 1
  /\ UNCHANGED <<pc, tm, outcome, before, sep, mode, left_prec, right_prec,
                 global_nats, tm_u, tm_w, result, opened>>
  /\ UNCHANGED <<nameVars, parserVars>>

\* global_parser.parse(s)
Parse ==
  /\ pc = "text"
  /\ pc' = "parsed"
  /\ outcome' = parse(s)
  /\ UNCHANGED <<tm, s, before, drv, sep, edits, mode, left_prec, right_prec,
                 global_nats, tm_u, tm_w, result, opened>>
  /\ UNCHANGED <<nameVars, parserVars>>

\* the sub-terms of the typed text
SubTerms == IF drv = NoDrv THEN {} ELSE Paths(drv)

\* a sub-term of the parsed text is put in one more pair of parentheses
Wrap(p) ==
  /\ pc = "parsed"
  /\ edits < MaxEdits
  /\ p \in SubTerms
  /\ pc' = "text"
  /\ drv' = WrapAt(drv, p)
  /\ s' = Yield(drv', sep)
  /\ before' = outcome
  /\ outcome' = NoOutcome
  /\ edits' = edits + 1
  /\ UNCHANGED <<tm, sep, mode, left_prec, right_prec, global_nats, tm_u, tm_w,
                 result, opened>>
  /\ UNCHANGED <<nameVars, parserVars>>

Next ==
  \/ Str_
  \/ Erase
  \/ Parse
  \/ \E p \in SubTerms : Wrap(p)

Spec == Init /\ [][Next]_vars

(***************************************************************************)
(* Properties of parsing, stated over Spec.                                *)
(***************************************************************************)
\* C1: a text rendered from a term by str and parsed unedited gives back a
\* term equal to that term.
C1_RoundTrip ==
  (pc = "parsed" /\ tm # NoTerm /\ edits = 0) =>
    (outcome.kind = "return" /\ Equals(outcome.v, tm) = "True")

\* the candidates the filter kept
Survivors == {c.v : c \in {k \in outcome.checks : k.r = "True"}}

\* C2: parse ends in one of three ways: it returns the one surviving
\* candidate, it fails with NoParse (the engine's rejection of the text
\* included) when none survives, or it fails with AmbiguousParse holding
\* every survivor when several survive.
C2_ThreeOutcomes ==
  pc = "parsed" =>
    /\ outcome.kind \in {"return", "NoParse", "UnexpectedInput", "AmbiguousParse"}
    /\ outcome.kind = "return" => Survivors = {outcome.v}
    /\ outcome.kind \in {"NoParse", "UnexpectedInput"} => Survivors = {}
    /\ outcome.kind = "AmbiguousParse" =>
         (Cardinality(Survivors) > 1 /\ outcome.parses = Survivors)

\* b is a with some parenthesis characters deleted
RECURSIVE DeletesOnlyParens(_, _)
DeletesOnlyParens(a, b) ==
  IF a = <<>> THEN b = <<>>
  ELSE \/ b # <<>> /\ a[1] = b[1] /\ DeletesOnlyParens(Tail(a), Tail(b))
       \/ a[1] \in Parens /\ DeletesOnlyParens(Tail(a), b)

\* C3: on every candidate parses builds, reducible_to answers true when the
\* stripped rendering is the stripped text with parentheses deleted, and
\* false otherwise; it does not fail.
C3_KeptIffParensDeleted ==
  pc = "parsed" =>
    \A c \in outcome.checks : c.r = Bool(DeletesOnlyParens(c.lhs, c.rhs))

\* C4: when a text parsed to the term of its typed derivation, the text with
\* one more pair of parentheses around one of its sub-terms parses to the
\* same term.
C4_ExtraParens ==
  (pc = "parsed" /\ drv # NoDrv /\ before.kind = "return"
     /\ Transform(Inline(drv)) = before.v) =>
    (outcome.kind = "return" /\ outcome.v = before.v)

\* a Plus or a Times is the right operand of "->" in d with no parentheses
\* around it
RECURSIVE BareRightOperand(_)
BareRightOperand(d) ==
  /\ d[1] # "identifier"
  /\ \/ d[1] = "Pow" /\ d[3][1] \in {"Plus", "Times"}
     \/ \E i \in 2..Len(d) : BareRightOperand(d[i])

\* C5: parse returns no term that reads a Plus or a Times as the right
\* operand of "->" when the text has no parentheses around that operand.
C5_RightOfPowNeedsParens ==
  (pc = "parsed" /\ drv # NoDrv /\ BareRightOperand(drv)) =>
    ~(outcome.kind = "return" /\ outcome.v = Transform(Inline(drv)))

(***************************************************************************)
(* SpecPretty: a term of Example 1 is rendered in mode 'pretty' between    *)
(* the default bounds.                                                     *)
(***************************************************************************)
InitPretty ==
  /\ pc = "term"
  /\ tm \in Ex1UpTo(MaxLeaves)
  /\ s = <<>>
  /\ outcome = NoOutcome
  /\ before = NoOutcome
  /\ drv = NoDrv
  /\ sep = <<>>
  /\ edits = 0
  /\ mode = None
  /\ left_prec = bot
  /\ right_prec = bot
  /\ global_nats = 0
  /\ tm_u = <<>>
  /\ tm_w = <<>>
  /\ result = <<>>
  /\ opened = {}
  /\ NoneIssued
  /\ ParserReady(productions)

\* t.str('pretty')
Pretty == ToStr("pretty", bot, bot)

NextPretty == Pretty

SpecPretty == InitPretty /\ [][NextPretty]_vars

\* the operator of a class as mode 'pretty' spells it
PrettyOp(c) ==
  CASE c = "Times" -> <<" ", "*", " ">>
    [] c = "Plus" -> <<" ", "+", " ">>
    [] c = "Pow" -> <<" ", "-", ">", " ">>

\* the table of bracketed operands: child as the operand on the given side
\* of parent, where inner tells whether parent is itself bracketed
TableBrackets(parent, side, child, inner) ==
  CASE child = "Top" -> FALSE
    [] child = parent -> side = "p"
    [] parent = "Times" /\ child = "Plus" -> TRUE
    [] parent = "Plus" /\ child = "Times" -> FALSE
    [] parent = "Pow" /\ child \in {"Plus", "Times"} -> side = "q" /\ ~inner
    [] child = "Pow" /\ parent \in {"Times", "Plus"} -> TRUE

\* the text the table gives for t, an operand bracketed when b; exempt tells
\* whether a bracketed Pow exempts its right operand
RECURSIVE TableRender(_, _, _)
TableRender(t, b, exempt) ==
  LET c == t[1]
      body == TableRender(t[2], TableBrackets(c, "p", t[2][1], b /\ exempt), exempt)
              \o PrettyOp(c) \o
              TableRender(t[3], TableBrackets(c, "q", t[3][1], b /\ exempt), exempt)
  IN IF c = "Top" THEN <<"1">>
     ELSE IF b THEN parens(body) ELSE body

\* C7 as stated: in mode 'pretty' an operand is bracketed exactly when it
\* is a same-operator left operand, a Plus under Times, a Plus or Times right
\* of Pow, or a Pow under Times or Plus.
C7_PrettyTableAsStated ==
  pc = "str" => s = TableRender(tm, FALSE, FALSE)

\* C7 amended: as C7, except that a Plus or Times right of Pow is bracketed
\* only when that Pow is not itself bracketed.
C7_PrettyTable ==
  pc = "str" => s = TableRender(tm, FALSE, TRUE)

\* a bracketed Pow whose right operand is a Plus has been rendered
C7_Witness ==
  /\ pc = "str"
  /\ mode = "pretty"
  /\ tm[1] = "Times"
  /\ tm[2][1] = "Pow"
  /\ tm[2][3][1] = "Plus"
  /\ s = TableRender(tm, FALSE, TRUE)
  /\ s # TableRender(tm, FALSE, FALSE)

(***************************************************************************)
(* SpecBind: terms with variables and binders are built, compared,         *)
(* substituted into and opened, with the counter global_nats shared by     *)
(* every allocation.                                                       *)
(***************************************************************************)
\* texts whose parse gives the parsed terms
BindTexts ==
  {<<"x">>, <<"x", ".", "x">>, <<"y", ".", "y">>, <<"x", ".", "y">>,
   <<"x", ".", "y", ".", "x">>, <<"x", ".", "x", "+", "y">>, <<"(", "x", ".", "x", ")", "+", "y">>}

ParsedTerms == {r.v : r \in {q \in {parse(u) : u \in BindTexts} : q.kind = "return"}}

\* terms built by the constructors, binders from an explicit Name
BuiltTerms ==
  {Top, V(y_), V(x0), F(x0, V(x0)), F(x_, V(x0)), F(y_, V(x_)), F(x0, V(y_)),
   <<"Plus", V(x_), Top>>, <<"Plus", F(y_, V(y_)), V(x_)>>,
   F(x_, F(y_, <<"Plus", V(x_), V(y_)>>)), F(y_, F(x_, <<"Plus", V(y_), V(x_)>>)),
   F(x_, F(y_, <<"Plus", V(y_), V(x_)>>))}

BindTerms == BuiltTerms \cup ParsedTerms

\* F.__init__ on a tag and a callable: the callables of the examples
Bodies == {"var", "plus", "const"}

F_init(x, body, n) ==
  LET name == Name_fresh(Name(x, NoneN), n)
  IN F(name, CASE body = "var" -> V(name)
               [] body = "plus" -> <<"Plus", V(name), Top>>
               [] body = "const" -> V(y_))

\* The expressions of the script that build terms with F(tag, lambda): a
\* template is <<"bind", tag, body>> for F(tag, lambda v: body), <<"var", k>>
\* for the variable of the k-th lambda around it (1 the innermost),
\* <<"name", x>> for V(x), and <<class, args>> for a constructor call.
T_id == <<"Lam", <<"bind", <<"x">>, <<"var", 1>>>>>>
T_omega == <<"Lam", <<"bind", <<"x">>, <<"App", <<"var", 1>>, <<"var", 1>>>>>>>>
T_k == <<"Lam", <<"bind", <<"x">>, <<"Lam", <<"bind", <<"y">>, <<"var", 2>>>>>>>>>>
T_m == <<"Lam", <<"bind", <<"y">>, <<"App", T_k, <<"var", 1>>>>>>>>

Templates ==
  {T_id, T_omega, T_k, T_m,
   <<"App", T_id, T_id>>,
   <<"bind", <<"x">>, <<"bind", <<"x">>, <<"var", 2>>>>>>,
   <<"Lam", <<"bind", <<"x">>,
       <<"App", <<"Lam", <<"bind", <<"y">>, <<"var", 2>>>>>>, T_id>>>>>>,
   <<"App", <<"Lam", <<"bind", <<"x">>, <<"name", y_>>>>>>,
            <<"Lam", <<"bind", <<"y">>, <<"var", 1>>>>>>>>}

\* the template calls V on no Name given by hand
RECURSIVE Closed(_)
Closed(tpl) ==
  CASE tpl[1] = "var" -> TRUE
    [] tpl[1] = "name" -> FALSE
    [] tpl[1] = "bind" -> Closed(tpl[3])
    [] OTHER -> \A i \in 2..Len(tpl) : Closed(tpl[i])

\* the value of a template and the counter it leaves: F.__init__ on a tag
\* takes Name(x).fresh() and then calls the lambda on V(self.x); the
\* arguments of a constructor are evaluated left to right
RECURSIVE Build(_, _, _)
RECURSIVE build_args(_, _, _, _)

build_args(tpl, i, env, n) ==
  IF i > Len(tpl) THEN [t |-> <<>>, n |-> n]
  ELSE LET a == Build(tpl[i], env, n)
           r == build_args(tpl, i + 1, env, a.n)
       IN [t |-> <<a.t>> \o r.t, n |-> r.n]

Build(tpl, env, n) ==
  CASE tpl[1] = "var" -> [t |-> V(env[tpl[2]]), n |-> n]
    [] tpl[1] = "name" -> [t |-> V(tpl[2]), n |-> n]
    [] tpl[1] = "bind" -> LET x == Name_fresh(Name(tpl[2], NoneN), n)
                              e == Build(tpl[3], <<x>> \o env, n + 1)
                          IN [t |-> F(x, e.t), n |-> e.n]
    [] OTHER -> LET r == build_args(tpl, 2, env, n)
                IN [t |-> <<tpl[1]>> \o r.t, n |-> r.n]

\* substitutions whose replacement terms hold no binder
Substs ==
  {(y_ :> V(x0)), (y_ :> V(x_)), (x_ :> V(y_)), (y_ :> <<"Plus", V(x0), Top>>),
   (x_ :> Top), (x0 :> V(y_))}

InitBind ==
  /\ pc = "ready"
  /\ tm \in BindTerms
  /\ s = <<>>
  /\ outcome = NoOutcome
  /\ before = NoOutcome
  /\ drv = NoDrv
  /\ sep = <<>>
  /\ edits = 0
  /\ mode = None
  /\ left_prec = bot
  /\ right_prec = bot
  /\ global_nats = 0
  /\ tm_u = <<>>
  /\ tm_w = <<>>
  /\ result = <<>>
  /\ opened = {}
  /\ NoneIssued
  /\ ParserReady(productions)

\* F(x, lambda x: ...)
Create(x, body) ==
  /\ pc = "ready"
  /\ global_nats < MaxNats
  /\ pc' = "ready"
  /\ tm' = F_init(x, body, global_nats)
  /\ global_nats' = global_nats + 1
  /\ result' = <<>>
  /\ issued' = issued \o Allocated(tm')
  /\ origin' = body
  /\ UNCHANGED <<s, outcome, before, drv, sep, edits, mode, left_prec, right_prec,
                 tm_u, tm_w, opened>>
  /\ UNCHANGED parserVars

\* a term is built by an expression of the script
Construct(tpl) ==
  /\ pc = "ready"
  /\ global_nats < MaxNats
  /\ pc' = "ready"
  /\ tm' = Build(tpl, <<>>, global_nats).t
  /\ global_nats' = Build(tpl, <<>>, global_nats).n
  /\ result' = <<>>
  /\ issued' = issued \o Allocated(tm')
  /\ origin' = IF Closed(tpl) THEN "tag" ELSE "mixed"
  /\ UNCHANGED <<s, outcome, before, drv, sep, edits, mode, left_prec, right_prec,
                 tm_u, tm_w, opened>>
  /\ UNCHANGED parserVars

\* a term is built by the constructors from Names given by hand
Given(t) ==
  /\ pc = "ready"
  /\ pc' = "given"
  /\ result' = [t |-> t]
  /\ UNCHANGED <<tm, s, outcome, before, drv, sep, edits, mode, left_prec, right_prec,
                 global_nats, tm_u, tm_w, opened>>
  /\ UNCHANGED <<nameVars, parserVars>>

\* the parse of each text
BindParses == [u \in BindTexts |-> parse(u)]

\* global_parser.parse(text)
ParseText(text) ==
  /\ pc = "ready"
  /\ pc' = "parsed"
  /\ outcome' = BindParses[text]
  /\ UNCHANGED <<tm, s, before, drv, sep, edits, mode, left_prec, right_prec,
                 global_nats, tm_u, tm_w, result, opened>>
  /\ UNCHANGED <<nameVars, parserVars>>

\* str(tm)
Render ==
  /\ pc = "ready"
  /\ pc' = "rendered"
  /\ s' = Str__(tm)
  /\ UNCHANGED <<tm, outcome, before, drv, sep, edits, mode, left_prec, right_prec,
                 global_nats, tm_u, tm_w, result, opened>>
  /\ UNCHANGED <<nameVars, parserVars>>

\* tm.simple_names()
Simplify ==
  /\ pc = "ready"
  /\ pc' = "simplified"
  /\ result' = [t |-> simple_names(tm, EmptyMap, NoSet).t]
  /\ UNCHANGED <<tm, s, outcome, before, drv, sep, edits, mode, left_prec, right_prec,
                 global_nats, tm_u, tm_w, opened>>
  /\ UNCHANGED <<nameVars, parserVars>>

\* tm.fvs()
FreeNames ==
  /\ pc = "ready"
  /\ pc' = "fvs"
  /\ result' = [names |-> fvs(tm)]
  /\ UNCHANGED <<tm, s, outcome, before, drv, sep, edits, mode, left_prec, right_prec,
                 global_nats, tm_u, tm_w, opened>>
  /\ UNCHANGED <<nameVars, parserVars>>

\* f = tm.fresh(); f == tm; tm.simple_names() == tm;
\* str(tm.simple_names()); str(f.simple_names())
FreshSimpleResult(t, f, n) ==
  [kind |-> "fresh", from |-> n, n |-> f.n, fresh |-> f.t,
   fresh_eq |-> Equals(f.t, t),
   simple_eq |-> Equals(simple_names(t, EmptyMap, NoSet).t, t),
   text |-> Str__(simple_names(t, EmptyMap, NoSet).t),
   fresh_text |-> Str__(simple_names(f.t, EmptyMap, NoSet).t)]

FreshSimple ==
  /\ pc = "ready"
  /\ global_nats < MaxNats
  /\ pc' = "alpha"
  /\ result' = FreshSimpleResult(tm, fresh(tm, EmptyMap, global_nats), global_nats)
  /\ global_nats' = result'.n
  /\ issued' = issued \o Allocated(result'.fresh)
  /\ UNCHANGED <<tm, s, outcome, before, drv, sep, edits, mode, left_prec, right_prec,
                 tm_u, tm_w, opened, origin>>
  /\ UNCHANGED parserVars

\* tm == u; a = tm.subst(m); b = u.subst(m); a == b
SubstBothResult(t, u, a, b, n) ==
  [kind |-> "subst", from |-> n, n |-> b.n, eq |-> Equals(t, u), a |-> a.t, b |-> b.t,
   subst_eq |-> Equals(a.t, b.t)]

SubstBoth(u, m) ==
  /\ pc = "ready"
  /\ global_nats < MaxNats
  /\ pc' = "alpha"
  /\ tm_u' = u
  /\ result' = SubstBothResult(tm, u, subst(tm, m, global_nats),
                               subst(u, m, subst(tm, m, global_nats).n), global_nats)
  /\ global_nats' = result'.n
  /\ issued' = issued \o Allocated(result'.a) \o Allocated(result'.b)
  /\ UNCHANGED <<tm, s, outcome, before, drv, sep, edits, mode, left_prec, right_prec,
                 tm_w, opened, origin>>
  /\ UNCHANGED parserVars

\* tm == u, u == tm, u == w, tm == w
CompareResult(t, u, w) ==
  [tt |-> Equals(t, t), tu |-> Equals(t, u), ut |-> Equals(u, t),
   uw |-> Equals(u, w), tw |-> Equals(t, w)]

Compare(u, w) ==
  /\ pc = "ready"
  /\ pc' = "compared"
  /\ tm_u' = u
  /\ tm_w' = w
  /\ result' = CompareResult(tm, u, w)
  /\ UNCHANGED <<tm, s, outcome, before, drv, sep, edits, mode, left_prec, right_prec,
                 global_nats, opened>>
  /\ UNCHANGED <<nameVars, parserVars>>

\* tm.subst(m)
SubstResult(r, m, n) == [t |-> r.t, n |-> r.n, map |-> m, from |-> n]

Subst(m) ==
  /\ pc = "ready"
  /\ global_nats < MaxNats
  /\ pc' = "substituted"
  /\ result' = SubstResult(subst(tm, m, global_nats), m, global_nats)
  /\ global_nats' = result'.n
  /\ issued' = issued \o Allocated(result'.t)
  /\ UNCHANGED <<tm, s, outcome, before, drv, sep, edits, mode, left_prec, right_prec,
                 tm_u, tm_w, opened, origin>>
  /\ UNCHANGED parserVars

\* tm.fresh()
FreshResult(r, n) == [t |-> r.t, n |-> r.n, from |-> n]

Fresh ==
  /\ pc = "ready"
  /\ global_nats < MaxNats
  /\ pc' = "freshened"
  /\ result' = FreshResult(fresh(tm, EmptyMap, global_nats), global_nats)
  /\ global_nats' = result'.n
  /\ issued' = issued \o Allocated(result'.t)
  /\ UNCHANGED <<tm, s, outcome, before, drv, sep, edits, mode, left_prec, right_prec,
                 tm_u, tm_w, opened, origin>>
  /\ UNCHANGED parserVars

\* tm.unwrap
OpenResult(r, earlier) == [x |-> r.x, e |-> r.e, n |-> r.n, earlier |-> earlier]

Open ==
  /\ pc \in {"ready", "opened"}
  /\ IsF(tm)
  /\ global_nats < MaxNats
  /\ pc' = "opened"
  /\ result' = OpenResult(get_unwrap(tm, global_nats), opened)
  /\ global_nats' = result'.n
  /\ opened' = opened \cup {result'.x}
  /\ issued' = issued \o Allocated(F(result'.x, result'.e))
  /\ UNCHANGED <<tm, s, outcome, before, drv, sep, edits, mode, left_prec, right_prec,
                 tm_u, tm_w, origin>>
  /\ UNCHANGED parserVars

\* the body an open returned is the term worked on next
Enter ==
  /\ pc = "opened"
  /\ pc' = "ready"
  /\ tm' = result.e
  /\ result' = <<>>
  /\ origin' = "opened"
  /\ UNCHANGED <<s, outcome, before, drv, sep, edits, mode, left_prec, right_prec,
                 global_nats, tm_u, tm_w, opened, issued>>
  /\ UNCHANGED parserVars

NextBind ==
  \/ \E x \in {<<"x">>, <<"y">>}, body \in Bodies : Create(x, body)
  \/ \E tpl \in Templates : Construct(tpl)
  \/ \E t \in BuiltTerms : Given(t)
  \/ \E text \in BindTexts : ParseText(text)
  \/ Render
  \/ Simplify
  \/ FreeNames
  \/ \E u \in BindTerms, w \in BindTerms : Compare(u, w)
  \/ \E m \in Substs : Subst(m)
  \/ Fresh
  \/ FreshSimple
  \/ \E u \in BindTerms, m \in Substs : SubstBoth(u, m)
  \/ Open
  \/ Enter

SpecBind == InitBind /\ [][NextBind]_vars

(***************************************************************************)
(* Properties of the binding core, stated over SpecBind.                   *)
(***************************************************************************)
\* the position of name x in the binders env around an occurrence, 0 if none
RECURSIVE BinderOf(_, _, _)
BinderOf(env, x, i) ==
  IF i > Len(env) THEN 0 ELSE IF env[i] = x THEN i ELSE BinderOf(env, x, i + 1)

\* a term with each bound occurrence replaced by the distance to its binder
RECURSIVE Nameless(_, _)
Nameless(t, env) ==
  CASE IsV(t) -> IF BinderOf(env, t[2], 1) = 0 THEN <<"free", t[2]>>
                 ELSE <<"bound", BinderOf(env, t[2], 1)>>
    [] IsF(t) -> <<"F", Nameless(t[3], <<t[2]>> \o env)>>
    [] OTHER -> <<t[1]>> \o [i \in 1..(Len(t) - 1) |-> Nameless(t[i + 1], env)]

\* t and u differ only by the names of their bound variables
Alpha(t, u) == Nameless(t, <<>>) = Nameless(u, <<>>)

\* C8: == is reflexive, symmetric and transitive on the terms built and
\* parsed, and holds exactly of the terms that differ only by renaming of
\* bound variables.
C8_EqualsIsEquivalence ==
  pc = "compared" =>
    /\ result.tt = "True"
    /\ result.tu = "True" => result.ut = "True"
    /\ (result.tu = "True" /\ result.uw = "True") => result.tw = "True"
    /\ result.tu = "True" <=> Alpha(tm, tm_u)

\* the Names the binders of a term bind
RECURSIVE Binders(_)
Binders(t) ==
  CASE IsV(t) -> {}
    [] IsF(t) -> {t[2]} \cup Binders(t[3])
    [] OTHER -> UNION {Binders(t[i]) : i \in 2..Len(t)}

\* r is m after a substitution for the names keys: some replacement term put
\* in r has a free name that a binder of r around it (under holds the Names
\* bound so far) binds
RECURSIVE Captured(_, _, _, _)
Captured(m, r, keys, under) ==
  CASE IsV(m) -> m[2] \in keys /\ fvs(r) \cap under # {}
    [] IsF(m) -> Captured(m[3], r[3], keys \ {m[2]}, under \cup {r[2]})
    [] OTHER -> \E i \in 2..Len(m) : Captured(m[i], r[i], keys, under)

\* C9: after m.subst(map), no free name of a replacement term is bound by a
\* binder of m around the place the replacement went to, and every binder of
\* the result binds a Name allocated by this call.
C9_CaptureAvoiding ==
  pc = "substituted" =>
    /\ ~Captured(tm, result.t, DOMAIN result.map, {})
    /\ \A b \in Binders(result.t) : b[2] \in result.from..(result.n - 1)

\* C10: an open returns a Name that is not the stored Name nor a Name an
\* earlier open returned, and a body in which the returned Name stands where
\* the stored Name was free.
C10_OpenIsFresh ==
  pc = "opened" =>
    /\ result.x # tm[2]
    /\ result.x \notin result.earlier
    /\ fvs(result.e) = IF tm[2] \in fvs(tm[3])
                       THEN (fvs(tm[3]) \ {tm[2]}) \cup {result.x}
                       ELSE fvs(tm[3])

\* C11: the disambiguators handed out by Name.fresh, through F(tag, body),
\* fresh, subst and unwrap, are each greater than every one handed out
\* before, and the counter stays above all of them.
C11_StrictlyIncreasing ==
  /\ \A i \in DOMAIN issued : \A j \in DOMAIN issued : i < j => issued[i] < issued[j]
  /\ \A i \in DOMAIN issued : issued[i] < global_nats

\* a binder was opened and its body, itself a binder, was freshened: three
\* disambiguators or more were handed out by two calls
C11_Witness ==
  /\ pc = "freshened"
  /\ origin = "opened"
  /\ Len(issued) >= 3

\* the first Name with the tag of x, in the order of the disambiguators none,
\* 0, 1, 2, ..., that is not reserved
FirstUnreserved(x, reserved) ==
  IF Name(x[1], NoneN) \notin reserved THEN Name(x[1], NoneN)
  ELSE Name(x[1], CHOOSE n \in 0..Cardinality(reserved) :
                    /\ Name(x[1], n) \notin reserved
                    /\ \A k \in 0..(n - 1) : Name(x[1], k) \in reserved)

\* t with every binder given the first Name that is not reserved for it:
\* reserved for a binder are the Names reserved for the binders around it,
\* the Names those binders were given, and the binder's own free Names
RECURSIVE Simplified(_, _, _)
Simplified(t, renaming, reserved) ==
  CASE IsV(t) -> IF t[2] \in DOMAIN renaming THEN V(renaming[t[2]]) ELSE t
    [] IsF(t) -> LET own == reserved \cup fvs(t)
                     x == FirstUnreserved(t[2], own)
                 IN F(x, Simplified(t[3], Update(renaming, t[2], x), own \cup {x}))
    [] OTHER -> <<t[1]>> \o [i \in 1..(Len(t) - 1) |-> Simplified(t[i + 1], renaming, reserved)]

\* C12: simple_names gives each binder the first Name, in the order none, 0,
\* 1, 2, ..., that is not reserved for it, where the Names reserved for a
\* binder are those of the binders around it and the binder's own free
\* Names; binders in sibling scopes are named without regard to each other.
C12_FirstUnreserved ==
  pc = "simplified" => result.t = Simplified(tm, EmptyMap, {})

\* the Names with an occurrence in t that no binder of that Name in t, nor a
\* Name of bound, encloses
RECURSIVE FreeOccurrences(_, _)
FreeOccurrences(t, bound) ==
  CASE IsV(t) -> IF t[2] \in bound THEN {} ELSE {t[2]}
    [] IsF(t) -> FreeOccurrences(t[3], bound \cup {t[2]})
    [] OTHER -> UNION {FreeOccurrences(t[i], bound) : i \in 2..Len(t)}

\* C13: fvs returns exactly the Names with an occurrence that no binder of
\* that Name encloses, and the empty set for a term whose every variable
\* occurrence is the argument of a lambda given to F(tag, lambda).
C13_FreeNames ==
  pc = "fvs" =>
    /\ result.names = FreeOccurrences(tm, {})
    /\ origin = "tag" => result.names = {}

\* fvs of a binder that takes its bound Name out of its body's Names and
\* leaves another
C13_Witness ==
  /\ pc = "fvs"
  /\ IsF(tm)
  /\ tm[2] \in FreeOccurrences(tm[3], {})
  /\ result.names # {}

\* the kind of a node: variable, binder, or its declared class
KindOf(t) == IF IsV(t) THEN "V" ELSE IF IsF(t) THEN "F" ELSE t[1]

\* C14: equals on two nodes of different kinds is an InvalidConstruction
\* failure, never an answer: not false, and not true either.
C14_MismatchFails ==
  pc = "compared" =>
    /\ KindOf(tm) # KindOf(tm_u) =>
          result.tu = "InvalidConstruction" /\ result.ut = "InvalidConstruction"
    /\ KindOf(tm) # KindOf(tm_w) => result.tw = "InvalidConstruction"

\* the entries of a node rendered one after the other, entry i between the
\* cursor positions ls[i] and rs[i]
EntriesStr(self, md, ls, rs) ==
  LET annotations == Annotations[self[1]]
  IN Concat([i \in 1..Len(annotations) |->
       IF annotations[i].lit THEN in_mode(annotations[i], md)
       ELSE str(getattr(self, annotations[i].k), md, ls[i], rs[i], global_prec_order)])

\* the node at hand had to be bracketed
Bracketed ==
  /\ pc = "str"
  /\ IsMixfix(tm)
  /\ bracketing(tm[1], left_prec, right_prec, global_prec_order)

\* C19 as stated: a bracketed node renders every field between bottom and
\* bottom and wraps the concatenation in its bracketer.
C19_AllBoundsReset ==
  Bracketed =>
    s = bracket(tm[1], mode,
          EntriesStr(tm, mode, [i \in DOMAIN Annotations[tm[1]] |-> bot],
                               [i \in DOMAIN Annotations[tm[1]] |-> bot]))

\* C19 amended: a bracketed node resets to bottom only the position left of
\* its first entry and the position right of its last entry; every other
\* entry is rendered between the exit of the entry before it and its own
\* exit, as in a node that is not bracketed; the concatenation is wrapped
\* in the bracketer.
C19_OuterBoundsReset ==
  Bracketed =>
    LET annotations == Annotations[tm[1]]
        k == Len(annotations)
    IN s = bracket(tm[1], mode,
             EntriesStr(tm, mode,
               [i \in 1..k |-> IF i = 1 THEN bot ELSE make_prec(tm[1], annotations[i - 1].k)],
               [i \in 1..k |-> IF i = k THEN bot ELSE make_prec(tm[1], annotations[i].k)]))

\* a bracketed node one of whose fields is bracketed because of a bound that
\* was kept
C19_Witness ==
  /\ Bracketed
  /\ s # bracket(tm[1], mode,
            EntriesStr(tm, mode, [i \in DOMAIN Annotations[tm[1]] |-> bot],
                                 [i \in DOMAIN Annotations[tm[1]] |-> bot]))

(***************************************************************************)
(* SpecBracket: terms with nodes of class Add, which declares a bracketer  *)
(* of its own, are rendered.                                               *)
(***************************************************************************)
\* the terms over Add, Plus and Top with exactly n occurrences of Top
RECURSIVE AddTerms(_)
AddTerms(n) ==
  IF n = 1 THEN {Top}
  ELSE UNION {{<<c, a, b>> : c \in {"Add", "Plus"}, a \in AddTerms(k), b \in AddTerms(n - k)} :
              k \in 1..(n - 1)}

InitBracket ==
  /\ pc = "term"
  /\ tm \in UNION {AddTerms(n) : n \in 1..StrLeaves}
  /\ s = <<>>
  /\ outcome = NoOutcome
  /\ before = NoOutcome
  /\ drv = <<>>
  /\ sep = <<>>
  /\ edits = 0
  /\ tm_u = <<>>
  /\ tm_w = <<>>
  /\ result = <<>>
  /\ opened = {}
  /\ mode = None
  /\ left_prec = bot
  /\ right_prec = bot
  /\ global_nats = 0
  /\ NoneIssued
  /\ ParserReady(productions)

SpecBracket == InitBracket /\ [][NextStr]_vars

\* C18: the text str() gives is bracketed with plain parentheses only,
\* whatever bracketer the classes of the term declare.
C18_DefaultModeParens ==
  (pc = "str" /\ mode = None /\ left_prec = bot /\ right_prec = bot) =>
    \A i \in DOMAIN s : s[i] \notin {"[", "]"}

\* the number of binders of a term
RECURSIVE BinderCount(_)
RECURSIVE binders_from(_, _)
binders_from(t, i) == IF i > Len(t) THEN 0 ELSE BinderCount(t[i]) + binders_from(t, i + 1)

BinderCount(t) ==
  CASE IsV(t) -> 0
    [] IsF(t) -> 1 + BinderCount(t[3])
    [] OTHER -> binders_from(t, 2)

\* no Name of the term carries a disambiguator
RECURSIVE Undisambiguated(_)
Undisambiguated(t) ==
  CASE IsV(t) -> t[2][2] = NoneN
    [] IsF(t) -> t[2][2] = NoneN /\ Undisambiguated(t[3])
    [] OTHER -> \A i \in 2..Len(t) : Undisambiguated(t[i])

C20_AlphaRespected ==
  pc = "alpha" =>
    /\ result.kind = "fresh" =>
          /\ result.fresh_eq = "True"
          /\ result.simple_eq = "True"
          /\ result.fresh_text = result.text
    /\ (result.kind = "subst" /\ result.eq = "True") => result.subst_eq = "True"

(***************************************************************************)
(* SpecDecl: classes are declared with @mixfix, each declaration running   *)
(* add_production line by line, while parses() reads the parser and the    *)
(* transformer of the same closure.                                        *)
(***************************************************************************)
\* a second class named Plus, with another literal
Plus2Production == <<"Plus", <<TermItem, LitItem(<<"+", "+">>), TermItem>>>>

\* a class whose only annotation is Str('"')
QuoteProduction == <<"Quote", <<LitItem(<<"\"">>)>>>>

\* the productions of the classes the script declares
Declarable == {ProductionOf("Top"), ProductionOf("Plus"), Plus2Production, QuoteProduction}

\* escape leaves a double quote as it is, so the literal of the grammar text
\* ends at it and the grammar does not load
GrammarLoads(ps) ==
  \A i \in DOMAIN ps : \A k \in DOMAIN ps[i][2] : "\"" \notin Range(ps[i][2][k].s)

otherVars ==
  <<pc, tm, s, outcome, before, drv, sep, edits, mode, left_prec, right_prec,
    global_nats, tm_u, tm_w, result, opened, issued, origin>>

\* the module has been imported: the production of F is registered
InitDecl ==
  /\ pc = "declaring"
  /\ tm = Top
  /\ s = <<>>
  /\ outcome = NoOutcome
  /\ before = NoOutcome
  /\ drv = NoDrv
  /\ sep = <<>>
  /\ edits = 0
  /\ mode = None
  /\ left_prec = bot
  /\ right_prec = bot
  /\ global_nats = 0
  /\ tm_u = <<>>
  /\ tm_w = <<>>
  /\ result = <<>>
  /\ opened = {}
  /\ NoneIssued
  /\ ParserReady(<<FProduction>>)

\* @mixfix on a class: add_production is called and appends the production
Declare(p) ==
  /\ pc = "declaring"
  /\ adding = NoCall
  /\ Len(prods) <= MaxDecls
  /\ prods' = Append(prods, p)
  /\ adding' = [NoCall EXCEPT !.line = 98, !.p = p]
  /\ UNCHANGED <<constructors, parser, transformer, parsing>>
  /\ UNCHANGED otherVars

\* parser = make_parser(productions): the call returns, or raises and
\* add_production is left
MakeParser ==
  /\ pc = "declaring"
  /\ adding.line = 98
  /\ IF GrammarLoads(prods)
       THEN parser' = prods /\ adding' = [adding EXCEPT !.line = 99]
       ELSE parser' = parser /\ adding' = NoCall
  /\ UNCHANGED <<prods, constructors, transformer, parsing>>
  /\ UNCHANGED otherVars

\* constructors[classname_to_nt(p[0].__name__)] = p[0]
Register ==
  /\ pc = "declaring"
  /\ adding.line = 99
  /\ constructors' = Update(constructors, adding.p[1], adding.p)
  /\ adding' = [adding EXCEPT !.line = 100]
  /\ UNCHANGED <<prods, parser, transformer, parsing>>
  /\ UNCHANGED otherVars

\* transformer = make_transformer(constructors)
MakeTransformer ==
  /\ pc = "declaring"
  /\ adding.line = 100
  /\ transformer' = constructors
  /\ adding' = NoCall
  /\ UNCHANGED <<prods, constructors, parser, parsing>>
  /\ UNCHANGED otherVars

\* parses(s): forest = parser.parse(s)
ParsesParse ==
  /\ pc = "declaring"
  /\ parsing = NoCall
  /\ parsing' = [line |-> 133, p |-> prods, parser |-> parser, transformer |-> EmptyMap]
  /\ UNCHANGED <<prods, constructors, parser, transformer, adding>>
  /\ UNCHANGED otherVars

\* parses(s): v = transformer.transform(tree)
ParsesTransform ==
  /\ pc = "declaring"
  /\ parsing.line = 133
  /\ parsing' = [parsing EXCEPT !.line = 140, !.transformer = transformer]
  /\ UNCHANGED <<prods, constructors, parser, transformer, adding>>
  /\ UNCHANGED otherVars

\* parses(s): return parses, the terms that this parser and this transformer
\* give
ParsesReturn ==
  /\ pc = "declaring"
  /\ parsing.line = 140
  /\ parsing' = NoCall
  /\ result' = [parser |-> parsing.parser, transformer |-> parsing.transformer]
  /\ UNCHANGED <<prods, constructors, parser, transformer, adding>>
  /\ UNCHANGED <<pc, tm, s, outcome, before, drv, sep, edits, mode, left_prec, right_prec,
                 global_nats, tm_u, tm_w, opened, issued, origin>>

NextDecl ==
  \/ \E p \in Declarable : Declare(p)
  \/ MakeParser
  \/ Register
  \/ MakeTransformer
  \/ ParsesParse
  \/ ParsesTransform
  \/ ParsesReturn

SpecDecl == InitDecl /\ [][NextDecl]_vars

\* C15: declaring a class name once more fails at the declaration: there are
\* never two productions of one class name, and the constructor registered
\* for a name is the class that was declared first under it.
C15_NoRedeclaration ==
  /\ \A i, j \in DOMAIN prods : prods[i][1] = prods[j][1] => i = j
  /\ \A c \in DOMAIN constructors :
       \E i \in DOMAIN prods :
         /\ prods[i] = constructors[c]
         /\ \A j \in 1..(i - 1) : prods[j][1] # c

\* C16: a parse uses a parser built from the productions as they are when it
\* starts, and a transformer built from the constructors of exactly the
\* productions of that parser.
C16_MatchingPair ==
  /\ parsing.line >= 133 => parsing.parser = parsing.p
  /\ parsing.line = 140 => parsing.transformer = ConstructorsOf(parsing.parser)

====
